---- MODULE Spec2Model ----
(***************************************************************************)
(* Model of the aquestalk_rs binding layer (src/src/lib.rs): the           *)
(* aquestalk1 module (AqDLL, AqWAV) and the aqkanji2koe module (AqK2KDLL,  *)
(* AqK2Kinstance, AqK2Kstr).  The native libraries and the process         *)
(* allocator are the environment: every call the layer makes to them is    *)
(* logged, and their answers are nondeterministic inputs of the actions.   *)
(***************************************************************************)
EXTENDS Integers, Sequences, FiniteSets, TLC

\* ------------------------------------------------------------------ bounds
MaxWav == 2      \* native audio buffers the synthesis library hands out
MaxInst == 2     \* native instance handles the conversion library hands out
MaxAlloc == 1    \* blocks convert takes from the process allocator
LongLen == 128   \* byte length of the longest input text
MaxCode == 402   \* error codes are drawn from -MaxCode..MaxCode and the i32 ends
NThreads == 2    \* threads that share the handles

\* --------------------------------------------------------------- constants
NULL == 0
MinSize == 256
I32Max == 2147483647
NoCode == -1

\* ------------------------------------------------------------------- state
VARIABLES
    aqdll,       \* the AqDLL loader object: "none" | "alive" | "dropped"
    aqStrong,    \* strong count of the Arc<AqDLL2>
    aqLib,       \* AqDLL2.lib, the library image: "none" | "mapped" | "unmapped"
    aqSyms,      \* AqDLL2.synthe and .freewav: "none" | "uninit" | "resolved"
    wavs,        \* live AqWAV values, [ptr, len] of the slice each holds
    nwavs,       \* native side: per buffer returned by synthe, how often freed
    wavDropped,  \* pointers of the AqWAV values that were dropped
    k2kdll,      \* the AqK2KDLL loader object
    k2kStrong,   \* strong count of the Arc<AqK2KDLL2>
    k2kLib,      \* AqK2KDLL2.lib
    k2kSyms,     \* the entry points of AqK2KDLL2, and the devkey of a running load
    inflight,    \* the native convert calls that have not returned yet
    insts,       \* live AqK2Kinstance values (their instance handle)
    handles,     \* native side: per handle returned by create, how often released
    instDropped, \* handles of the AqK2Kinstance values that were dropped
    blocks,      \* process allocator: per block, its size, liveness, deallocs
    strs,        \* live AqK2Kstr values, [ptr, len, layout]
    strDropped,  \* pointers of the AqK2Kstr values that were dropped
    ret          \* what the last operation returned and the calls it made

vars == <<aqdll, aqStrong, aqLib, aqSyms, wavs, nwavs, wavDropped,
          k2kdll, k2kStrong, k2kLib, k2kSyms, inflight, insts, handles,
          instDropped, blocks, strs, strDropped, ret>>
aqVars == <<aqdll, aqStrong, aqLib, aqSyms, wavs, nwavs, wavDropped>>
k2kVars == <<k2kdll, k2kStrong, k2kLib, k2kSyms, inflight, insts, handles,
             instDropped, blocks, strs, strDropped>>

\* ---------------------------------------------------------- value domains
\* A usize value hi * 2^31 + lo: wide enough to hold sizes an i32 cannot.
U(n) == [hi |-> 0, lo |-> n]
Huge == [hi |-> 1, lo |-> 0]
USizeLt(a, b) == a.hi < b.hi \/ (a.hi = b.hi /\ a.lo < b.lo)

None == [some |-> FALSE, v |-> U(0)]
Some(s) == [some |-> TRUE, v |-> s]

\* Byte strings: 0 is the NUL byte, 65 an ASCII byte, 255 never valid UTF-8.
Rep(n) == [i \in 1..n |-> 65]
Notations == {<<>>, <<65>>, <<0>>, <<65, 0, 65>>}
Speeds == {50, 300}
Texts == {Rep(1), Rep(LongLen), <<65, 0, 65>>}
BufferSizes == {None, Some(U(0)), Some(U(MinSize + 2)), Some(Huge)}
Outputs == {<<>>, <<65>>, <<255>>}
SyntheSizes == {-1, 0, 44}
SyntheCodes == {0, 105}
\* The answers of the native synthesis entry point: a buffer and its length,
\* or a null pointer and a code, in the length slot.
SyntheAnswers == {[wav |-> TRUE, size |-> n] : n \in SyntheSizes}
                     \cup {[wav |-> FALSE, size |-> c] : c \in SyntheCodes}
K2KCodes == {0, 105}
Paths == {<<65>>, <<65, 0>>}
DictPtrs == {NULL, 1}
ErrCodes == (-MaxCode..MaxCode) \cup {-I32Max, I32Max}
DevKeys == {None, Some(<<65>>), Some(<<65, 0>>)}
\* The answers of the native convert entry point: a return code and, when it
\* is zero, the bytes it left in the buffer before the first NUL.
ConvertAnswers == {[errcode |-> 0, out |-> o] : o \in Outputs}
                      \cup {[errcode |-> c, out |-> <<>>] : c \in K2KCodes \ {0}}

\* A call the layer makes to a native entry point or to the process allocator.
\* ptr is the pointer or handle passed or returned, cap a size argument, out the
\* code the callee returns or leaves in its output slot.
CallOut(f, p, c, o) == [fn |-> f, ptr |-> p, cap |-> c, out |-> o]
Call(f, p, c) == CallOut(f, p, c, 0)
NoCalls == <<>>
\* msg is the message an error value formats to, env what the environment
\* decided for the operation besides the answers logged in calls.
NoMsg == [cat |-> "", code |-> NoCode]
Ret(o, k, c, t, calls) ==
    [op |-> o, kind |-> k, code |-> c, text |-> t, bs |-> None, calls |-> calls,
     msg |-> NoMsg, env |-> "", trace |-> calls]
Fns(calls) == {calls[i].fn : i \in 1..Len(calls)}

\* ----------------------------------------------------------- std helpers
\* CString::new fails on an interior NUL byte.
HasNul(s) == \E i \in 1..Len(s) : s[i] = 0
\* usize::try_from(i32)
TryFromI32(n) == [ok |-> n >= 0, v |-> U(IF n >= 0 THEN n ELSE 0)]
\* i32::try_from(usize)
TryFromUSize(s) == [ok |-> s.hi = 0, v |-> IF s.hi = 0 THEN s.lo ELSE 0]
\* CStr::to_str
IsUtf8(s) == \A i \in 1..Len(s) : s[i] < 128

\* Dropping one Arc holder: the library is unmapped when the last one goes,
\* and the binding that held the entry points is gone with it.
ArcDropLib(strong, lib) == IF strong - 1 = 0 THEN "unmapped" ELSE lib
ArcDropSyms(strong, syms, none) == IF strong - 1 = 0 THEN none ELSE syms
\* What the drop of a handle's dll field does to the library, as an event.
ArcDropUnmap(strong, lib) ==
    IF strong - 1 = 0 THEN <<Call("unmap", NULL, U(0))>> ELSE NoCalls

\* The entry points of a binding: none before Arc::new, uninit as lines 48-49
\* and 223-227 leave them, resolved once lib.get has been assigned to them.
AqSyms(v) == [synthe |-> v, freewav |-> v]
K2KSyms(v, key) == [setdevkey |-> v, create |-> v, create_ptr |-> v,
                    release |-> v, convert |-> v, devkey |-> key, keyed |-> FALSE]
Threads == 1..NThreads
Busy(t) == \E f \in inflight : f.thread = t

\* ------------------------------------------------------------- aquestalk1
Init ==
    /\ aqdll = "none" /\ aqStrong = 0 /\ aqLib = "none"
    /\ aqSyms = AqSyms("none") /\ k2kSyms = K2KSyms("none", None)
    /\ inflight = {}
    /\ wavs = {} /\ nwavs = <<>> /\ wavDropped = {}
    /\ k2kdll = "none" /\ k2kStrong = 0 /\ k2kLib = "none"
    /\ insts = {} /\ handles = <<>> /\ instDropped = {}
    /\ blocks = <<>> /\ strs = {} /\ strDropped = {}
    /\ ret = Ret("init", "ok", 0, <<>>, NoCalls)

\* AqDLL::load.  fail names the first step that fails.
AqDLL_load(fail) ==
    /\ aqdll = "none"
    /\ IF fail = "none"
       THEN /\ aqdll' = "alive" /\ aqStrong' = 1 /\ aqLib' = "mapped"
            /\ aqSyms' = AqSyms("resolved")
            /\ ret' = Ret("load", "ok", 0, <<>>, NoCalls)
       ELSE IF fail = "lib"
       THEN /\ UNCHANGED <<aqdll, aqStrong, aqLib, aqSyms>>
            /\ ret' = Ret("load", "LoadFailure", 0, <<>>, NoCalls)
       ELSE \* a symbol is missing: the Arc built at line 46 is dropped again
            /\ aqdll' = "none" /\ aqStrong' = 0 /\ aqLib' = "unmapped"
            /\ aqSyms' = AqSyms("none")
            /\ ret' = Ret("load", "SymbolNotFound", 0, <<>>, NoCalls)
    /\ UNCHANGED <<wavs, nwavs, wavDropped, k2kVars>>

\* The Arc::clone of line 74.
synthe_clone_none(strong) == strong
synthe_clone(strong) == strong + 1

\* The koe2 of line 65: whether CString::new(koe)? returns early.
synthe_koe2_unchecked(koe) == FALSE
synthe_koe2_fails(koe) == HasNul(koe)

\* The Err of line 69.
synthe_err_zero(size) == Ret("synthe", "NativeFailure", 0, <<>>, NoCalls)
synthe_err(size) == Ret("synthe", "NativeFailure", size, <<>>, NoCalls)

\* AqDLL::synthe.  wav and size are the native entry point's answer: wav is
\* TRUE for a non-null buffer, size what it leaves in the length slot.
synthe(koe, ispeed, wav, size) ==
    /\ aqdll = "alive"
    /\ IF synthe_koe2_fails(koe)
       THEN /\ ret' = Ret("synthe", "EncodingError", 0, koe, NoCalls)
            /\ UNCHANGED <<aqStrong, wavs, nwavs>>
       ELSE IF ~wav
       THEN /\ size \in SyntheCodes
            /\ ret' = [synthe_err(size) EXCEPT !.text = koe,
                           !.calls = <<CallOut("synthe", NULL, U(0), size)>>,
                           !.trace = <<CallOut("synthe", NULL, U(0), size)>>]
            /\ UNCHANGED <<aqStrong, wavs, nwavs>>
       ELSE /\ size \in SyntheSizes
            /\ Len(nwavs) < MaxWav
            /\ LET p == Len(nwavs) + 1
                   n == TryFromI32(size)
               IN /\ nwavs' = Append(nwavs, 0)
                  /\ IF n.ok
                     THEN /\ wavs' = wavs \cup {[ptr |-> p, len |-> n.v.lo]}
                          /\ aqStrong' = synthe_clone(aqStrong)
                          /\ ret' = Ret("synthe", "ok", p, koe,
                                        <<CallOut("synthe", p, U(0), size)>>)
                     ELSE /\ UNCHANGED <<wavs, aqStrong>>
                          /\ ret' = Ret("synthe", "TryFromIntError", p, koe,
                                        <<CallOut("synthe", p, U(0), size)>>)
    /\ UNCHANGED <<aqdll, aqLib, aqSyms, wavDropped, k2kVars>>

\* The body of Drop for AqWAV: the calls it makes.  Indexing wav[0] panics
\* on an empty slice, before freewav is reached.
AqWAV_drop_calls(w) ==
    IF w.len = 0 THEN NoCalls ELSE <<Call("freewav", w.ptr, U(0))>>

\* The order of a drop of an AqWAV: Drop::drop runs (or unwinds), then the
\* fields wav and dll are dropped.
AqWAV_drop_fields_first(calls, fields) == fields \o calls
AqWAV_drop_order(calls, fields) == calls \o fields

\* Drop for AqWAV, then the drop of its dll field.
AqWAV_drop(w) ==
    /\ w \in wavs
    /\ LET calls == AqWAV_drop_calls(w)
       IN /\ nwavs' = [p \in 1..Len(nwavs) |->
                         nwavs[p] + Cardinality({i \in 1..Len(calls) :
                             calls[i].fn = "freewav" /\ calls[i].ptr = p})]
          /\ ret' = [Ret("AqWAV_drop", IF w.len = 0 THEN "panic" ELSE "ok",
                         w.ptr, <<>>, calls) EXCEPT
                        !.trace = AqWAV_drop_order(calls,
                                      ArcDropUnmap(aqStrong, aqLib))]
    /\ wavs' = wavs \ {w}
    /\ wavDropped' = wavDropped \cup {w.ptr}
    /\ aqStrong' = aqStrong - 1
    /\ aqLib' = ArcDropLib(aqStrong, aqLib)
    /\ aqSyms' = ArcDropSyms(aqStrong, aqSyms, AqSyms("none"))
    /\ UNCHANGED <<aqdll, k2kVars>>

\* The loader leaves scope: its dll field is dropped.
AqDLL_drop ==
    /\ aqdll = "alive"
    /\ aqdll' = "dropped"
    /\ aqStrong' = aqStrong - 1
    /\ aqLib' = ArcDropLib(aqStrong, aqLib)
    /\ aqSyms' = ArcDropSyms(aqStrong, aqSyms, AqSyms("none"))
    /\ ret' = [Ret("AqDLL_drop", "ok", 0, <<>>, NoCalls) EXCEPT
                  !.trace = ArcDropUnmap(aqStrong, aqLib)]
    /\ UNCHANGED <<wavs, nwavs, wavDropped, k2kVars>>

NextAq ==
    \/ \E fail \in {"none", "lib", "synthe", "freewav"} : AqDLL_load(fail)
    \/ \E koe \in Notations, ispeed \in Speeds, a \in SyntheAnswers :
          synthe(koe, ispeed, a.wav, a.size)
    \/ \E w \in wavs : AqWAV_drop(w)
    \/ AqDLL_drop

SpecAq == Init /\ [][NextAq]_vars

\* ------------------------------------------------------------ aqkanji2koe
\* Line 233, let _ = (dll.dll.setdevkey)(..): whether the result code of the
\* native set-development-key entry point makes load fail.
setdevkey_checked(keyres) == keyres # 0
setdevkey_fails(keyres) == FALSE

\* AqK2KDLL::load.  fail names the first step that fails, keyres is the
\* result code of the native set-development-key entry point.
AqK2KDLL_load(devkey, fail, keyres) ==
    /\ k2kdll = "none"
    /\ LET keycalls == IF devkey.some /\ ~HasNul(devkey.v)
                       THEN <<CallOut("setdevkey", NULL, U(0), keyres)>> ELSE NoCalls
           R(k, calls) == [Ret("k2kload", k, 0, devkey.v, calls) EXCEPT
                               !.bs = [some |-> devkey.some, v |-> U(0)],
                               !.env = fail]
       IN IF fail \in {"cpp", "lib"}
          THEN /\ UNCHANGED <<k2kdll, k2kStrong, k2kLib, k2kSyms>>
               /\ ret' = R("LoadFailure", NoCalls)
          ELSE IF fail = "setdevkey"
          THEN /\ k2kdll' = "none" /\ k2kStrong' = 0 /\ k2kLib' = "unmapped"
               /\ k2kSyms' = K2KSyms("none", None)
               /\ ret' = R("SymbolNotFound", NoCalls)
          ELSE IF devkey.some /\ HasNul(devkey.v)
          THEN /\ k2kdll' = "none" /\ k2kStrong' = 0 /\ k2kLib' = "unmapped"
               /\ k2kSyms' = K2KSyms("none", None)
               /\ ret' = R("EncodingError", NoCalls)
          ELSE IF keycalls # NoCalls /\ setdevkey_fails(keyres)
          THEN /\ k2kdll' = "none" /\ k2kStrong' = 0 /\ k2kLib' = "unmapped"
               /\ k2kSyms' = K2KSyms("none", None)
               /\ ret' = R("NativeFailure", keycalls)
          ELSE IF fail # "none"
          THEN /\ k2kdll' = "none" /\ k2kStrong' = 0 /\ k2kLib' = "unmapped"
               /\ k2kSyms' = K2KSyms("none", None)
               /\ ret' = R("SymbolNotFound", keycalls)
          ELSE /\ k2kdll' = "alive" /\ k2kStrong' = 1 /\ k2kLib' = "mapped"
               /\ k2kSyms' = K2KSyms("resolved", None)
               /\ ret' = R("ok", keycalls)
    /\ UNCHANGED <<inflight, insts, handles, instDropped, blocks, strs, strDropped,
                   aqVars>>

\* The Arc::clone of lines 283 and 306.
create_clone_none(strong) == strong
create_clone(strong) == strong + 1

\* The Err of lines 279 and 301.
create_err_zero(op, errcode) == Ret(op, "NativeFailure", 0, <<>>, NoCalls)
create_err(op, errcode) == Ret(op, "NativeFailure", errcode, <<>>, NoCalls)

\* What create and create_ptr do with the native entry point's answer:
\* instance is TRUE for a non-null handle, errcode what it leaves in the slot.
create_finish(op, text, instance, errcode) ==
    IF ~instance
    THEN /\ ret' = [create_err(op, errcode) EXCEPT !.text = text,
                        !.calls = <<CallOut(op, NULL, U(0), errcode)>>,
                        !.trace = <<CallOut(op, NULL, U(0), errcode)>>]
         /\ UNCHANGED <<k2kStrong, insts, handles>>
    ELSE /\ Len(handles) < MaxInst
         /\ LET h == Len(handles) + 1
            IN /\ handles' = Append(handles, 0)
               /\ insts' = insts \cup {[instance |-> h]}
               /\ k2kStrong' = create_clone(k2kStrong)
               /\ ret' = Ret(op, "ok", h, text, <<CallOut(op, h, U(0), errcode)>>)

\* AqK2KDLL::create
create(pathdic, instance, errcode) ==
    /\ k2kdll = "alive"
    /\ IF HasNul(pathdic)
       THEN /\ ret' = Ret("create", "EncodingError", 0, pathdic, NoCalls)
            /\ UNCHANGED <<k2kStrong, insts, handles>>
       ELSE create_finish("create", pathdic, instance, errcode)
    /\ UNCHANGED <<k2kdll, k2kLib, k2kSyms, inflight, instDropped, blocks, strs,
                   strDropped, aqVars>>

\* AqK2KDLL::create_ptr.  The two dictionary blocks belong to the caller.
create_ptr(sysdic, userdic, instance, errcode) ==
    /\ k2kdll = "alive"
    /\ create_finish("create_ptr", <<sysdic, userdic>>, instance, errcode)
    /\ UNCHANGED <<k2kdll, k2kLib, k2kSyms, inflight, instDropped, blocks, strs,
                   strDropped, aqVars>>

\* Lines 328-334: the capacity convert allocates.
convert_size_unclamped(kanji, buffersize) ==
    IF buffersize.some THEN buffersize.v ELSE U((Len(kanji) + 1) * 2)
convert_size(kanji, buffersize) ==
    LET size == IF buffersize.some THEN buffersize.v ELSE U((Len(kanji) + 1) * 2)
    IN IF USizeLt(size, U(MinSize)) THEN U(MinSize) ELSE size

\* The kanji2 of line 335: whether CString::new(kanji)? returns early.
convert_kanji2_unchecked(kanji) == FALSE
convert_kanji2_fails(kanji) == HasNul(kanji)

\* AqK2Kinstance::convert.  errcode and out are the native entry point's
\* answer: its return code and the bytes it leaves before the first NUL.
convert(i, kanji, buffersize, errcode, out) ==
    /\ i \in insts
    /\ LET size == convert_size(kanji, buffersize)
           buffer == Len(blocks) + 1
           cap == TryFromUSize(size)
           alloc == Call("alloc", buffer, size)
           native == CallOut("convert", i.instance, U(cap.v), errcode)
           R(k, c, calls) == [Ret("convert", k, c, kanji, calls) EXCEPT !.bs = buffersize]
       IN IF convert_kanji2_fails(kanji)
          THEN /\ ret' = R("EncodingError", 0, NoCalls)
               /\ UNCHANGED <<blocks, strs>>
          ELSE /\ Len(blocks) < MaxAlloc
               /\ blocks' = Append(blocks, [size |-> size, deallocs |-> 0])
               /\ IF ~cap.ok
                  THEN /\ ret' = R("TryFromIntError", 0, <<alloc>>)
                       /\ UNCHANGED strs
                  ELSE IF errcode # 0
                  THEN /\ ret' = R("NativeFailure", errcode, <<alloc, native>>)
                       /\ UNCHANGED strs
                  ELSE IF ~IsUtf8(out)
                  THEN /\ ret' = R("Utf8Error", 0, <<alloc, native>>)
                       /\ UNCHANGED strs
                  ELSE /\ ret' = R("ok", 0, <<alloc, native>>)
                       /\ strs' = strs \cup
                              {[ptr |-> buffer, len |-> Len(out), layout |-> size]}
    /\ UNCHANGED <<k2kdll, k2kStrong, k2kLib, k2kSyms, inflight, insts, handles,
                   instDropped, strDropped, aqVars>>

\* The body of Drop for AqK2Kinstance: the calls it makes.
AqK2Kinstance_drop_none(i) == NoCalls
AqK2Kinstance_drop_twice(i) ==
    <<Call("release", i.instance, U(0)), Call("release", i.instance, U(0))>>
AqK2Kinstance_drop_calls(i) == <<Call("release", i.instance, U(0))>>

\* The order of a drop of an AqK2Kinstance: Drop::drop runs, then the fields
\* dll and instance are dropped.
AqK2Kinstance_drop_fields_first(calls, fields) == fields \o calls
AqK2Kinstance_drop_order(calls, fields) == calls \o fields

\* convert and drop take &mut self: no other thread is inside a call on the
\* same instance.
AqK2Kinstance_shared(i) == TRUE
AqK2Kinstance_exclusive(i) == \A f \in inflight : f.instance # i.instance

\* Drop for AqK2Kinstance, then the drop of its dll field.
AqK2Kinstance_drop(i) ==
    /\ i \in insts
    /\ AqK2Kinstance_exclusive(i)
    /\ LET calls == AqK2Kinstance_drop_calls(i)
       IN /\ handles' = [h \in 1..Len(handles) |->
                           handles[h] + Cardinality({n \in 1..Len(calls) :
                               calls[n].fn = "release" /\ calls[n].ptr = h})]
          /\ ret' = [Ret("AqK2Kinstance_drop", "ok", i.instance, <<>>, calls)
                        EXCEPT !.trace = AqK2Kinstance_drop_order(calls,
                                             ArcDropUnmap(k2kStrong, k2kLib))]
    /\ insts' = insts \ {i}
    /\ instDropped' = instDropped \cup {i.instance}
    /\ k2kStrong' = k2kStrong - 1
    /\ k2kLib' = ArcDropLib(k2kStrong, k2kLib)
    /\ k2kSyms' = ArcDropSyms(k2kStrong, k2kSyms, K2KSyms("none", None))
    /\ UNCHANGED <<k2kdll, inflight, blocks, strs, strDropped, aqVars>>

\* The body of Drop for AqK2Kstr: the calls it makes.  Indexing byte 0 of
\* an empty content panics, before dealloc is reached.
AqK2Kstr_drop_calls(s) ==
    IF s.len = 0 THEN NoCalls ELSE <<Call("dealloc", s.ptr, s.layout)>>

\* An AqK2Kstr has the fields content and layout and no Arc of the binding:
\* the strong count its drop leaves.
AqK2Kstr_drop_strong_dec(strong) == strong - 1
AqK2Kstr_drop_strong(strong) == strong

\* Drop for AqK2Kstr
AqK2Kstr_drop(s) ==
    /\ s \in strs
    /\ LET calls == AqK2Kstr_drop_calls(s)
       IN /\ blocks' = [b \in 1..Len(blocks) |->
                          [blocks[b] EXCEPT !.deallocs = @ + Cardinality(
                             {n \in 1..Len(calls) :
                                calls[n].fn = "dealloc" /\ calls[n].ptr = b})]]
          /\ ret' = Ret("AqK2Kstr_drop", IF s.len = 0 THEN "panic" ELSE "ok",
                        s.ptr, <<>>, calls)
    /\ strs' = strs \ {s}
    /\ strDropped' = strDropped \cup {s.ptr}
    /\ k2kStrong' = AqK2Kstr_drop_strong(k2kStrong)
    /\ UNCHANGED <<k2kdll, k2kLib, k2kSyms, inflight, insts, handles, instDropped,
                   aqVars>>

\* The loader leaves scope: its dll field is dropped.
AqK2KDLL_drop ==
    /\ k2kdll = "alive"
    /\ k2kdll' = "dropped"
    /\ k2kStrong' = k2kStrong - 1
    /\ k2kLib' = ArcDropLib(k2kStrong, k2kLib)
    /\ k2kSyms' = ArcDropSyms(k2kStrong, k2kSyms, K2KSyms("none", None))
    /\ ret' = [Ret("AqK2KDLL_drop", "ok", 0, <<>>, NoCalls) EXCEPT
                  !.trace = ArcDropUnmap(k2kStrong, k2kLib)]
    /\ UNCHANGED <<inflight, insts, handles, instDropped, blocks, strs, strDropped,
                   aqVars>>

NextK2K ==
    \/ \E devkey \in DevKeys, keyres \in K2KCodes,
          fail \in {"none", "cpp", "lib", "setdevkey", "create", "create_ptr",
                    "release", "convert"} : AqK2KDLL_load(devkey, fail, keyres)
    \/ \E pathdic \in Paths, instance \in BOOLEAN, errcode \in K2KCodes :
          create(pathdic, instance, errcode)
    \/ \E sysdic \in DictPtrs, userdic \in DictPtrs, instance \in BOOLEAN,
          errcode \in K2KCodes : create_ptr(sysdic, userdic, instance, errcode)
    \/ \E i \in insts, kanji \in Texts, buffersize \in BufferSizes,
          a \in ConvertAnswers : convert(i, kanji, buffersize, a.errcode, a.out)
    \/ \E i \in insts : AqK2Kinstance_drop(i)
    \/ \E s \in strs : AqK2Kstr_drop(s)
    \/ AqK2KDLL_drop

SpecK2K == Init /\ [][NextK2K]_vars

\* convert as the threads of a process see it.  convert_call is lines
\* 322-346 up to the moment the native entry point is entered by thread t.
convert_call(t, i, kanji, buffersize) ==
    /\ i \in insts
    /\ ~Busy(t)
    /\ AqK2Kinstance_exclusive(i)
    /\ LET size == convert_size(kanji, buffersize)
           buffer == Len(blocks) + 1
           cap == TryFromUSize(size)
           alloc == Call("alloc", buffer, size)
           native == Call("convert", i.instance, U(cap.v))
           R(k, calls) == [Ret("convert_call", k, 0, kanji, calls) EXCEPT
                               !.bs = buffersize]
       IN IF convert_kanji2_fails(kanji)
          THEN /\ ret' = R("EncodingError", NoCalls)
               /\ UNCHANGED <<blocks, inflight>>
          ELSE /\ Len(blocks) < MaxAlloc
               /\ blocks' = Append(blocks, [size |-> size, deallocs |-> 0])
               /\ IF ~cap.ok
                  THEN /\ ret' = R("TryFromIntError", <<alloc>>)
                       /\ UNCHANGED inflight
                  ELSE /\ ret' = R("pending", <<alloc, native>>)
                       /\ inflight' = inflight \cup
                              {[thread |-> t, instance |-> i.instance,
                                buffer |-> buffer, size |-> size]}
    /\ UNCHANGED <<k2kdll, k2kStrong, k2kLib, k2kSyms, insts, handles,
                   instDropped, strs, strDropped, aqVars>>

\* Lines 347-355: the native entry point returns to the thread of f.
convert_return(f, errcode, out) ==
    /\ f \in inflight
    /\ inflight' = inflight \ {f}
    /\ IF errcode # 0
       THEN /\ ret' = Ret("convert_return", "NativeFailure", errcode, <<>>, NoCalls)
            /\ UNCHANGED strs
       ELSE IF ~IsUtf8(out)
       THEN /\ ret' = Ret("convert_return", "Utf8Error", 0, <<>>, NoCalls)
            /\ UNCHANGED strs
       ELSE /\ ret' = Ret("convert_return", "ok", 0, <<>>, NoCalls)
            /\ strs' = strs \cup
                   {[ptr |-> f.buffer, len |-> Len(out), layout |-> f.size]}
    /\ UNCHANGED <<k2kdll, k2kStrong, k2kLib, k2kSyms, insts, handles,
                   instDropped, blocks, strDropped, aqVars>>

\* Some thread is free to make a call.
Idle == \E t \in Threads : ~Busy(t)

\* The two modules share no state: a process is followed in its use of one
\* of them.  The only native call made on an AqWAV's buffer is the freewav
\* of its drop; an AqK2Kinstance is Send and Sync (lines 367-369) and its
\* handle is passed to the native convert, which a thread may be inside of.
UsesAq == k2kLib = "none"
UsesK2K == aqLib = "none"

\* The operations of a process with several threads.
NextThreads ==
    \/ \E fail \in {"none", "lib", "synthe", "freewav"} : UsesAq /\ AqDLL_load(fail)
    \/ \E koe \in Notations, ispeed \in Speeds, a \in SyntheAnswers :
          UsesAq /\ synthe(koe, ispeed, a.wav, a.size)
    \/ \E w \in wavs : UsesAq /\ AqWAV_drop(w)
    \/ UsesAq /\ AqDLL_drop
    \/ \E devkey \in DevKeys, keyres \in K2KCodes,
          fail \in {"none", "cpp", "lib", "setdevkey", "create", "create_ptr",
                    "release", "convert"} :
          UsesK2K /\ Idle /\ AqK2KDLL_load(devkey, fail, keyres)
    \/ \E pathdic \in Paths, instance \in BOOLEAN, errcode \in K2KCodes :
          UsesK2K /\ Idle /\ create(pathdic, instance, errcode)
    \/ \E sysdic \in DictPtrs, userdic \in DictPtrs, instance \in BOOLEAN,
          errcode \in K2KCodes :
          UsesK2K /\ Idle /\ create_ptr(sysdic, userdic, instance, errcode)
    \/ \E t \in Threads, i \in insts, kanji \in {Rep(1), <<65, 0, 65>>},
          buffersize \in {None, Some(Huge)} : convert_call(t, i, kanji, buffersize)
    \/ \E f \in inflight, a \in ConvertAnswers : convert_return(f, a.errcode, a.out)
    \/ \E i \in insts : Idle /\ AqK2Kinstance_drop(i)
    \/ \E s \in strs : Idle /\ AqK2Kstr_drop(s)
    \/ Idle /\ AqK2KDLL_drop
SpecThreads == Init /\ [][NextThreads]_vars

\* ------------------------------------------------- load, statement by statement
\* Lines 43-51 of AqDLL::load: Library::new(dllpath)?, then Arc::new of an
\* AqDLL2 whose entry points are MaybeUninit::uninit().assume_init().
AqDLL_load_new(ok) ==
    /\ aqdll = "none"
    /\ IF ok
       THEN /\ aqdll' = "loading" /\ aqStrong' = 1 /\ aqLib' = "mapped"
            /\ aqSyms' = AqSyms("uninit")
            /\ ret' = Ret("load_new", "pending", 0, <<>>, NoCalls)
       ELSE /\ UNCHANGED <<aqdll, aqStrong, aqLib, aqSyms>>
            /\ ret' = Ret("load_new", "LoadFailure", 0, <<>>, NoCalls)
    /\ UNCHANGED <<wavs, nwavs, wavDropped, k2kVars>>

\* The entry point the next statement of AqDLL::load assigns.
AqDLL_load_next == IF aqSyms.synthe = "uninit" THEN "synthe" ELSE "freewav"

\* Lines 52-54: *dll.dll.<name>.forcemut() = dll.dll.lib.get(..)?, and the
\* Ok(dll) after the last of them.  A failed get drops dll.
AqDLL_load_get(found) ==
    /\ aqdll = "loading"
    /\ IF found
       THEN /\ aqSyms' = [aqSyms EXCEPT ![AqDLL_load_next] = "resolved"]
            /\ aqdll' = IF AqDLL_load_next = "freewav" THEN "alive" ELSE aqdll
            /\ ret' = Ret("load_get",
                          IF AqDLL_load_next = "freewav" THEN "ok" ELSE "pending",
                          0, <<>>, NoCalls)
            /\ UNCHANGED <<aqStrong, aqLib>>
       ELSE /\ aqdll' = "none" /\ aqStrong' = 0 /\ aqLib' = "unmapped"
            /\ aqSyms' = AqSyms("none")
            /\ ret' = [Ret("load_get", "SymbolNotFound", 0, <<>>, NoCalls)
                          EXCEPT !.trace = ArcDropUnmap(aqStrong, aqLib)]
    /\ UNCHANGED <<wavs, nwavs, wavDropped, k2kVars>>

\* Lines 213-229 of AqK2KDLL::load: cpp()?, Library::new(dllpath)?, then
\* Arc::new of an AqK2KDLL2 whose entry points are uninitialised.
AqK2KDLL_load_new(devkey, ok) ==
    /\ k2kdll = "none"
    /\ IF ok
       THEN /\ k2kdll' = "loading" /\ k2kStrong' = 1 /\ k2kLib' = "mapped"
            /\ k2kSyms' = K2KSyms("uninit", devkey)
            /\ ret' = Ret("k2kload_new", "pending", 0, devkey.v, NoCalls)
       ELSE /\ UNCHANGED <<k2kdll, k2kStrong, k2kLib, k2kSyms>>
            /\ ret' = Ret("k2kload_new", "LoadFailure", 0, devkey.v, NoCalls)
    /\ UNCHANGED <<inflight, insts, handles, instDropped, blocks, strs, strDropped,
                   aqVars>>

\* The entry point the next get of AqK2KDLL::load assigns.
AqK2KDLL_load_next ==
    IF k2kSyms.setdevkey = "uninit" THEN "setdevkey"
    ELSE IF k2kSyms.create = "uninit" THEN "create"
    ELSE IF k2kSyms.create_ptr = "uninit" THEN "create_ptr"
    ELSE IF k2kSyms.release = "uninit" THEN "release"
    ELSE "convert"

\* The binding of a failed load is dropped by the ? that returns.
AqK2KDLL_load_fail(kind, calls) ==
    /\ k2kdll' = "none" /\ k2kStrong' = 0 /\ k2kLib' = "unmapped"
    /\ k2kSyms' = K2KSyms("none", None)
    /\ ret' = [Ret("k2kload_step", kind, 0, k2kSyms.devkey.v, calls)
                  EXCEPT !.trace = calls \o ArcDropUnmap(k2kStrong, k2kLib)]

\* Lines 231-234: if let Some(s) = devkey, between the get of setdevkey and
\* the get of create.
AqK2KDLL_load_devkey(keyres) ==
    /\ k2kdll = "loading"
    /\ AqK2KDLL_load_next = "create"
    /\ k2kSyms.devkey.some /\ ~k2kSyms.keyed
    /\ IF HasNul(k2kSyms.devkey.v)
       THEN AqK2KDLL_load_fail("EncodingError", NoCalls)
       ELSE IF setdevkey_fails(keyres)
       THEN AqK2KDLL_load_fail("NativeFailure",
                               <<CallOut("setdevkey", NULL, U(0), keyres)>>)
       ELSE /\ k2kSyms' = [k2kSyms EXCEPT !.keyed = TRUE]
            /\ ret' = Ret("k2kload_step", "pending", 0, k2kSyms.devkey.v,
                          <<CallOut("setdevkey", NULL, U(0), keyres)>>)
            /\ UNCHANGED <<k2kdll, k2kStrong, k2kLib>>
    /\ UNCHANGED <<inflight, insts, handles, instDropped, blocks, strs, strDropped,
                   aqVars>>

\* Lines 230 and 235-239: *dll.dll.<name>.forcemut() = dll.dll.lib.get(..)?,
\* and the Ok(dll) after the last of them.
AqK2KDLL_load_get(found) ==
    /\ k2kdll = "loading"
    /\ AqK2KDLL_load_next = "create" => (k2kSyms.devkey.some => k2kSyms.keyed)
    /\ IF found
       THEN /\ k2kSyms' = IF AqK2KDLL_load_next = "convert"
                          THEN K2KSyms("resolved", None)
                          ELSE [k2kSyms EXCEPT ![AqK2KDLL_load_next] = "resolved"]
            /\ k2kdll' = IF AqK2KDLL_load_next = "convert" THEN "alive" ELSE k2kdll
            /\ ret' = Ret("k2kload_step",
                          IF AqK2KDLL_load_next = "convert" THEN "ok" ELSE "pending",
                          0, k2kSyms.devkey.v, NoCalls)
            /\ UNCHANGED <<k2kStrong, k2kLib>>
       ELSE AqK2KDLL_load_fail("SymbolNotFound", NoCalls)
    /\ UNCHANGED <<inflight, insts, handles, instDropped, blocks, strs, strDropped,
                   aqVars>>

\* A process in which load is followed statement by statement.
NextLoad ==
    \/ \E ok \in BOOLEAN : UsesAq /\ AqDLL_load_new(ok)
    \/ \E found \in BOOLEAN : UsesAq /\ AqDLL_load_get(found)
    \/ \E koe \in Notations, ispeed \in Speeds, a \in SyntheAnswers :
          UsesAq /\ synthe(koe, ispeed, a.wav, a.size)
    \/ \E w \in wavs : UsesAq /\ AqWAV_drop(w)
    \/ UsesAq /\ AqDLL_drop
    \/ \E devkey \in DevKeys, ok \in BOOLEAN : UsesK2K /\ AqK2KDLL_load_new(devkey, ok)
    \/ \E found \in BOOLEAN : AqK2KDLL_load_get(found)
    \/ \E keyres \in K2KCodes : AqK2KDLL_load_devkey(keyres)
    \/ \E pathdic \in Paths, instance \in BOOLEAN, errcode \in K2KCodes :
          UsesK2K /\ create(pathdic, instance, errcode)
    \/ \E sysdic \in DictPtrs, userdic \in DictPtrs, instance \in BOOLEAN,
          errcode \in K2KCodes :
          UsesK2K /\ create_ptr(sysdic, userdic, instance, errcode)
    \/ \E i \in insts, kanji \in {Rep(1), <<65, 0, 65>>},
          buffersize \in {None, Some(Huge)}, a \in ConvertAnswers :
          convert(i, kanji, buffersize, a.errcode, a.out)
    \/ \E i \in insts : AqK2Kinstance_drop(i)
    \/ \E s \in strs : AqK2Kstr_drop(s)
    \/ AqK2KDLL_drop
SpecLoad == Init /\ [][NextLoad]_vars

\* Both libraries in one process.
Next == NextAq \/ NextK2K
Spec == Init /\ [][Next]_vars

\* The operations that add or remove holders of the two bindings.
NextHolders ==
    \/ \E fail \in {"none", "lib", "synthe", "freewav"} : AqDLL_load(fail)
    \/ \E koe \in Notations, ispeed \in Speeds, a \in SyntheAnswers :
          synthe(koe, ispeed, a.wav, a.size)
    \/ \E w \in wavs : AqWAV_drop(w)
    \/ AqDLL_drop
    \/ \E devkey \in DevKeys, keyres \in K2KCodes,
          fail \in {"none", "cpp", "lib", "setdevkey", "create", "create_ptr",
                    "release", "convert"} : AqK2KDLL_load(devkey, fail, keyres)
    \/ \E pathdic \in Paths, instance \in BOOLEAN, errcode \in K2KCodes :
          create(pathdic, instance, errcode)
    \/ \E sysdic \in DictPtrs, userdic \in DictPtrs, instance \in BOOLEAN,
          errcode \in K2KCodes : create_ptr(sysdic, userdic, instance, errcode)
    \/ \E i \in insts : AqK2Kinstance_drop(i)
    \/ AqK2KDLL_drop
SpecHolders == Init /\ [][NextHolders]_vars


\* --------------------------------------------------------- error messages
\* A message is modelled by its category and by the code its text ends with
\* ("..., エラーコード: 105"); the fallback text names no code.
Undefined == [cat |-> "undefined", code |-> NoCode]

\* The arms of the match in AqErr::msg.
AqErrTable ==
    (100 :> "other" @@ 101 :> "out_of_memory" @@ 102 :> "undefined_symbol"
     @@ 103 :> "negative_duration" @@ 104 :> "undefined_delimiter"
     @@ 105 :> "undefined_symbol" @@ 106 :> "bad_tag" @@ 107 :> "tag_too_long"
     @@ 108 :> "bad_tag_value" @@ 109 :> "wave_play" @@ 110 :> "wave_play_async"
     @@ 111 :> "no_data" @@ 200 :> "too_long" @@ 201 :> "too_many_symbols"
     @@ 202 :> "buffer_over" @@ 203 :> "heap" @@ 204 :> "buffer_over")

\* AqErr::msg
AqErr_msg_short(code) ==
    IF code \in DOMAIN AqErrTable \ {204}
    THEN [cat |-> AqErrTable[code], code |-> code] ELSE Undefined
AqErr_msg(code) ==
    IF code \in DOMAIN AqErrTable
    THEN [cat |-> AqErrTable[code], code |-> code] ELSE Undefined

\* Display for AqErr: an error value of any code is formatted.
AqErr_fmt(code) ==
    /\ ret' = [Ret("AqErr_fmt", "ok", code, <<>>, NoCalls) EXCEPT
                   !.msg = AqErr_msg(code)]
    /\ UNCHANGED <<aqVars, k2kVars>>

\* The exact arms of the match in AqK2Kerr::msg.
AqK2KerrTable ==
    (100 :> "other" @@ 101 :> "null_argument" @@ 104 :> "not_initialized"
     @@ 105 :> "text_too_long" @@ 106 :> "no_system_dic" @@ 107 :> "bad_charcode")

\* AqK2Kerr::msg: the exact arms, then 200..=299, then 300..=399.
AqK2Kerr_msg_wide(code) ==
    IF code \in DOMAIN AqK2KerrTable
    THEN [cat |-> AqK2KerrTable[code], code |-> code]
    ELSE IF code >= 200 /\ code <= 300 THEN [cat |-> "bad_system_dic", code |-> 200]
    ELSE IF code >= 300 /\ code <= 399 THEN [cat |-> "bad_user_dic", code |-> 300]
    ELSE Undefined
AqK2Kerr_msg(code) ==
    IF code \in DOMAIN AqK2KerrTable
    THEN [cat |-> AqK2KerrTable[code], code |-> code]
    ELSE IF code >= 200 /\ code <= 299 THEN [cat |-> "bad_system_dic", code |-> 200]
    ELSE IF code >= 300 /\ code <= 399 THEN [cat |-> "bad_user_dic", code |-> 300]
    ELSE Undefined

\* Display for AqK2Kerr
AqK2Kerr_fmt(code) ==
    /\ ret' = [Ret("AqK2Kerr_fmt", "ok", code, <<>>, NoCalls) EXCEPT
                   !.msg = AqK2Kerr_msg(code)]
    /\ UNCHANGED <<aqVars, k2kVars>>

NextErr ==
    \/ \E code \in ErrCodes : AqErr_fmt(code)
    \/ \E code \in ErrCodes : AqK2Kerr_fmt(code)
SpecErr == Init /\ [][NextErr]_vars

\* ------------------------------------------------------------------ claims
AqHolders == (IF aqdll = "alive" THEN 1 ELSE 0) + Cardinality(wavs)
K2KHolders == (IF k2kdll = "alive" THEN 1 ELSE 0) + Cardinality(insts)
LiveBlocks == {b \in 1..Len(blocks) : blocks[b].deallocs = 0}
CallsOf(calls, f) == {i \in 1..Len(calls) : calls[i].fn = f}
USizeMax(a, b) == IF USizeLt(a, b) THEN b ELSE a

\* C1: a convert call that allocated its output buffer and returns a failure
\* has released that buffer exactly once when the error reaches the caller,
\* and the live process-allocated buffers are as many as the live
\* ConvertedText values.
C1_FailedConvertReleasesBuffer ==
    /\ (ret.op = "convert" /\ ret.kind # "ok") =>
           \A n \in CallsOf(ret.calls, "alloc") :
               blocks[ret.calls[n].ptr].deallocs = 1
    /\ Cardinality(LiveBlocks) = Cardinality(strs)

\* C2: each library is mapped exactly while its binding has a holder (the
\* loader, an AudioBuffer, an EngineInstance): it stays mapped after the
\* loader is dropped while a derived handle lives, and is unmapped when the
\* last holder is dropped.
C2_MappedWhileHeld ==
    /\ (aqLib = "mapped") <=> (AqHolders > 0)
    /\ (k2kLib = "mapped") <=> (K2KHolders > 0)
C2_Witness ==
    /\ aqdll = "dropped" /\ wavs # {} /\ aqLib = "mapped"
    /\ k2kdll = "dropped" /\ insts # {} /\ k2kLib = "mapped"

\* C3: dropping an AudioBuffer invokes the native free routine exactly once,
\* with the pointer the native synthesis call returned, for every length
\* (length 0 included), and never twice for the same buffer.
C3_WavFreedExactlyOnce ==
    /\ \A p \in 1..Len(nwavs) :
           nwavs[p] = (IF p \in wavDropped THEN 1 ELSE 0)
    /\ ret.op = "AqWAV_drop" => ret.calls = <<Call("freewav", ret.code, U(0))>>

\* C4: when synthesize returns a failure, every non-null pointer the native
\* synthesis entry point returned to that call has been passed to the native
\* free routine.
C4_FailedSyntheLeaksNothing ==
    (ret.op = "synthe" /\ ret.kind # "ok") =>
        \A n \in CallsOf(ret.calls, "synthe") :
            ret.calls[n].ptr # NULL => nwavs[ret.calls[n].ptr] = 1

\* C5: the native release routine is invoked exactly once, with the
\* instance's own handle, for every EngineInstance that left scope, and not
\* at all for one that is still alive, whatever convert calls were made.
C5_InstanceReleasedExactlyOnce ==
    /\ \A h \in 1..Len(handles) :
           /\ handles[h] = (IF h \in instDropped THEN 1 ELSE 0)
           /\ (h \in instDropped) # ([instance |-> h] \in insts)
    /\ ret.op = "AqK2Kinstance_drop" =>
           ret.calls = <<Call("release", ret.code, U(0))>>
C5_Witness ==
    /\ ret.op = "AqK2Kinstance_drop"
    /\ Len(handles) = 2 /\ Cardinality(insts) = 1
    /\ blocks # <<>> /\ strs = {} /\ strDropped = {}

\* C6: dropping a ConvertedText gives its block back to the process
\* allocator exactly once, with the address and capacity it was allocated
\* with, for every result string (the empty one included), and through no
\* native routine.
C6_TextDeallocatedExactlyOnce ==
    /\ \A b \in 1..Len(blocks) :
           blocks[b].deallocs = (IF b \in strDropped THEN 1 ELSE 0)
    /\ ret.op = "AqK2Kstr_drop" =>
           ret.calls = <<Call("dealloc", ret.code, blocks[ret.code].size)>>

\* C7: a synthesize call whose notation holds a NUL byte fails with
\* EncodingError and calls neither the native synthesis entry point nor the
\* native free routine.
C7_NulNotationFailsBeforeNative ==
    (ret.op = "synthe" /\ HasNul(ret.text)) =>
        ret.kind = "EncodingError" /\ ret.calls = NoCalls
C7_Witness == ret.op = "synthe" /\ ret.text = <<65, 0, 65>>

\* C8: when the native synthesis entry point returns a null pointer,
\* synthesize returns NativeFailure with the value left in the length slot,
\* makes no other call, and adds neither an AudioBuffer nor a holder.
C8_NullWavStep ==
    (ret'.op = "synthe" /\ CallsOf(ret'.calls, "synthe") # {}
         /\ ret'.calls[1].ptr = NULL) =>
        /\ ret'.kind = "NativeFailure"
        /\ ret'.code = ret'.calls[1].out
        /\ Len(ret'.calls) = 1
        /\ wavs' = wavs /\ nwavs' = nwavs /\ aqStrong' = aqStrong
C8_NullWavIsNativeFailure == [][C8_NullWavStep]_vars
C8_Witness ==
    /\ ret.op = "synthe" /\ ret.kind = "NativeFailure" /\ ret.code = 105
    /\ wavs # {}

\* C9: when the native create entry point returns a null handle, create and
\* create_ptr return NativeFailure with the code left in the error slot,
\* produce no instance, and call neither the release routine nor the
\* process allocator.
C9_NullInstanceStep ==
    (ret'.op \in {"create", "create_ptr"} /\ ret'.calls # NoCalls
         /\ ret'.calls[1].ptr = NULL) =>
        /\ ret'.kind = "NativeFailure"
        /\ ret'.code = ret'.calls[1].out
        /\ Fns(ret'.calls) = {ret'.op}
        /\ insts' = insts /\ handles' = handles /\ k2kStrong' = k2kStrong
        /\ blocks' = blocks
C9_NullInstanceIsNativeFailure == [][C9_NullInstanceStep]_vars
C9_Witness ==
    /\ ret.op = "create_ptr" /\ ret.kind = "NativeFailure" /\ ret.code = 105
    /\ insts # {}

\* C10: convert allocates max(256, buffer_size) bytes when buffer_size is
\* given and max(256, 2 * (byte length of text + 1)) otherwise, and passes
\* the native convert entry point the number of bytes it allocated.
C10_Capacity ==
    ret.op = "convert" =>
        LET want == USizeMax(U(256), IF ret.bs.some THEN ret.bs.v
                                     ELSE U(2 * (Len(ret.text) + 1)))
        IN /\ \A n \in CallsOf(ret.calls, "alloc") :
                  /\ ret.calls[n].cap = want
                  /\ blocks[ret.calls[n].ptr].size = want
           /\ \A n \in CallsOf(ret.calls, "convert") :
                  /\ CallsOf(ret.calls, "alloc") # {}
                  /\ ret.calls[n].cap = want
           /\ ret.kind # "EncodingError" => CallsOf(ret.calls, "alloc") # {}
C10_Witness ==
    /\ ret.op = "convert" /\ ret.bs = None /\ Len(ret.text) = LongLen
    /\ CallsOf(ret.calls, "convert") # {}

\* C11: the synthesis-domain translation gives every integer a message: each
\* code in {100..111, 200..204} its own one (a category, and that code), and
\* every other integer the unrecognized one.
C11_SyntheCodes == (100..111) \cup (200..204)
C11_SyntheTranslation ==
    ret.op = "AqErr_fmt" =>
        IF ret.code \in C11_SyntheCodes
        THEN ret.msg.code = ret.code /\ ret.msg.cat \notin {"", "undefined"}
        ELSE ret.msg = [cat |-> "undefined", code |-> -1]
C11_Witness == ret.op = "AqErr_fmt" /\ ret.code = 204 /\ ret.msg.cat = "buffer_over"

\* C12: the conversion-domain translation maps 100, 101, 104..107 to their
\* own messages, 200..299 to the system-dictionary one, 300..399 to the
\* user-dictionary one and every other integer to the unrecognized one.
C12_ConversionTranslation ==
    ret.op = "AqK2Kerr_fmt" =>
        IF ret.code \in {100, 101, 104, 105, 106, 107}
        THEN /\ ret.msg.code = ret.code
             /\ ret.msg.cat \notin {"", "undefined", "bad_system_dic", "bad_user_dic"}
        ELSE IF ret.code \in 200..299 THEN ret.msg.cat = "bad_system_dic"
        ELSE IF ret.code \in 300..399 THEN ret.msg.cat = "bad_user_dic"
        ELSE ret.msg = [cat |-> "undefined", code |-> -1]
C12_Witness ==
    ret.op = "AqK2Kerr_fmt" /\ ret.code = 300 /\ ret.msg.cat = "bad_user_dic"

\* C14: an instance goes Uninitialized -> Ready -> Released only: Ready by a
\* create call that returned its non-null handle, Released by its drop; the
\* native convert and release entry points get the handle of a Ready
\* instance only, convert leaves it Ready, and release is called once.
C14_State(live, dropped, h) ==
    IF [instance |-> h] \in live THEN "Ready"
    ELSE IF h \in dropped THEN "Released" ELSE "Uninitialized"
C14_LifecycleStep ==
    /\ \A h \in 1..Len(handles') :
           LET a == C14_State(insts, instDropped, h)
               b == C14_State(insts', instDropped', h)
           IN /\ a # b =>
                    \/ /\ a = "Uninitialized" /\ b = "Ready"
                       /\ ret'.op \in {"create", "create_ptr"}
                       /\ ret'.calls = <<CallOut(ret'.op, h, U(0), ret'.calls[1].out)>>
                    \/ /\ a = "Ready" /\ b = "Released"
                       /\ ret'.op = "AqK2Kinstance_drop"
              /\ (b = "Released") = (handles'[h] = 1)
              /\ b # "Released" => handles'[h] = 0
    /\ \A n \in 1..Len(ret'.calls) :
           LET c == ret'.calls[n]
           IN /\ c.fn = "convert" =>
                    /\ C14_State(insts, instDropped, c.ptr) = "Ready"
                    /\ C14_State(insts', instDropped', c.ptr) = "Ready"
              /\ c.fn = "release" =>
                    /\ C14_State(insts, instDropped, c.ptr) = "Ready"
                    /\ C14_State(insts', instDropped', c.ptr) = "Released"
                    /\ \A k \in 1..Len(ret'.calls) : ret'.calls[k] = c => k = n
C14_Lifecycle == [][C14_LifecycleStep]_vars
C14_Witness ==
    /\ ret.op = "AqK2Kinstance_drop" /\ blocks # <<>>
    /\ \E h \in instDropped : handles[h] = 1
    /\ insts # {}

\* C18: a convert call whose text holds a NUL byte fails with EncodingError,
\* calls neither the native convert entry point nor the allocator, and
\* leaves the instance Ready.
C18_NulTextStep ==
    (ret'.op = "convert" /\ HasNul(ret'.text)) =>
        /\ ret'.kind = "EncodingError"
        /\ ret'.calls = NoCalls
        /\ blocks' = blocks /\ strs' = strs
        /\ insts' = insts /\ instDropped' = instDropped /\ handles' = handles
C18_NulTextFailsBeforeAlloc == [][C18_NulTextStep]_vars
C18_Witness ==
    /\ ret.op = "convert" /\ ret.text = <<65, 0, 65>> /\ ret.bs = Some(Huge)
    /\ insts # {}

\* C19: a ConvertedText does not hold the binding: dropping it calls no
\* native entry point and leaves the holder count and the library alone, and
\* dropping the instance or the loader leaves every live ConvertedText and
\* its block as they are, so that it can be dropped after the library is
\* unmapped.
C19_TextStep ==
    /\ ret'.op = "AqK2Kstr_drop" =>
           /\ Fns(ret'.calls) \subseteq {"dealloc"}
           /\ k2kStrong' = k2kStrong /\ k2kLib' = k2kLib /\ k2kdll' = k2kdll
           /\ insts' = insts /\ handles' = handles
    /\ ret'.op \in {"AqK2Kinstance_drop", "AqK2KDLL_drop"} =>
           strs' = strs /\ blocks' = blocks
    /\ \A s \in strs' : blocks'[s.ptr].deallocs = 0
C19_TextIndependentOfBinding == [][C19_TextStep]_vars
C19_Witness ==
    /\ ret.op = "AqK2Kstr_drop" /\ ret.kind = "ok"
    /\ k2kLib = "unmapped" /\ k2kdll = "dropped" /\ insts = {}

\* C16 as claimed: load invokes the native set-development-key entry point
\* exactly once if a license key is supplied and not at all if none is, and
\* its result code does not affect the outcome of load.
C16_KeyHasNoNul == ret.bs.some /\ ~HasNul(ret.text)
C16_LoadOutcome ==
    /\ ret.kind \in {"ok", "LoadFailure", "SymbolNotFound", "EncodingError"}
    /\ (ret.kind = "ok") = (ret.env = "none" /\ (ret.bs.some => ~HasNul(ret.text)))
    /\ (ret.kind = "ok") = (k2kdll = "alive")
C16_DevKeyOnceIfSupplied ==
    ret.op = "k2kload" =>
        /\ Cardinality(CallsOf(ret.calls, "setdevkey")) = (IF ret.bs.some THEN 1 ELSE 0)
        /\ C16_LoadOutcome

\* C16 as amended: load invokes the native set-development-key entry point
\* exactly once if a license key without a NUL byte is supplied and load gets
\* as far as that call (the runtime dependency and the library were opened
\* and the entry point resolved), and not at all otherwise; its result code
\* does not affect the outcome of load.
C16_DevKeyOnceIfReached ==
    ret.op = "k2kload" =>
        /\ Cardinality(CallsOf(ret.calls, "setdevkey")) =
               (IF C16_KeyHasNoNul /\ ret.env \notin {"cpp", "lib", "setdevkey"}
                THEN 1 ELSE 0)
        /\ C16_LoadOutcome
C16_Witness ==
    /\ ret.op = "k2kload" /\ ret.kind = "ok"
    /\ ret.calls = <<CallOut("setdevkey", NULL, U(0), 105)>>

\* C13: with several threads sharing handles, the native release of an
\* instance never runs while a thread is inside a native call on that
\* instance, and release (free) has run exactly once for every instance
\* (buffer) that was dropped and not at all for one that is still held.
C13_InstanceReleaseSafe ==
    /\ \A f \in inflight :
           /\ handles[f.instance] = 0
           /\ [instance |-> f.instance] \in insts
           /\ blocks[f.buffer].deallocs = 0
    /\ \A h \in 1..Len(handles) :
           handles[h] = (IF h \in instDropped THEN 1 ELSE 0)
C13_BufferFreedOnce ==
    \A w \in wavDropped : nwavs[w] = 1
C13_ReleaseSafeAndOnce ==
    /\ C13_InstanceReleaseSafe
    /\ C13_BufferFreedOnce

\* C15: in every step, each call of a native synthesis, free, create,
\* create-from-memory, convert or release entry point is made while the
\* library that exports it is mapped and before the step's own unmap of it:
\* a drop calls free/release first and gives up its Arc afterwards, and a
\* convert that has not returned keeps the library mapped.
C15_AqNative == {"synthe", "freewav"}
C15_K2KNative == {"create", "create_ptr", "convert", "release"}
C15_Step ==
    /\ \A n \in 1..Len(ret'.trace) :
           /\ ret'.trace[n].fn \in C15_AqNative => aqLib = "mapped"
           /\ ret'.trace[n].fn \in C15_K2KNative => k2kLib = "mapped"
           /\ ret'.trace[n].fn \in C15_AqNative \cup C15_K2KNative =>
                  \A k \in 1..(n - 1) : ret'.trace[k].fn # "unmap"
    /\ (aqLib = "mapped" /\ aqLib' = "unmapped") => "unmap" \in Fns(ret'.trace)
    /\ (k2kLib = "mapped" /\ k2kLib' = "unmapped") => "unmap" \in Fns(ret'.trace)
    /\ \A f \in inflight' : k2kLib' = "mapped"
C15_NativeBeforeUnmap == [][C15_Step]_vars
C15_Witness ==
    /\ ret.op = "AqK2Kinstance_drop"
    /\ Fns(ret.trace) = {"release", "unmap"}
    /\ k2kLib = "unmapped"

\* C17: while a binding exists, no step changes its library handle or any
\* of its entry points; only its holder count changes.
C17_AqBinding == [lib |-> aqLib, synthe |-> aqSyms.synthe,
                  freewav |-> aqSyms.freewav]
C17_K2KBinding == [lib |-> k2kLib, setdevkey |-> k2kSyms.setdevkey,
                   create |-> k2kSyms.create, create_ptr |-> k2kSyms.create_ptr,
                   release |-> k2kSyms.release, convert |-> k2kSyms.convert]
C17_Step ==
    /\ (aqStrong > 0 /\ aqStrong' > 0) => C17_AqBinding' = C17_AqBinding
    /\ (k2kStrong > 0 /\ k2kStrong' > 0) => C17_K2KBinding' = C17_K2KBinding
C17_BindingNeverMutated == [][C17_Step]_vars
====
